---- MODULE Spec2Model ----
(***************************************************************************)
(* A model of the sampling utilities (src/src/samplers/utils.py) and the   *)
(* experiment factories (src/src/utils/exp_utils.py).                      *)
(*                                                                         *)
(* Numbers are exact extended rationals <<n, d>>: d > 0 is the finite      *)
(* value n/d in lowest terms, <<1,0>> is +inf, <<-1,0>> is -inf and        *)
(* <<0,0>> is NaN, with the IEEE rules for inf and NaN that the float      *)
(* tensors of the code follow.  A tensor of shape (rows, cols) is a        *)
(* sequence of rows; a batched image tensor (B, 1, H, W) is kept as its    *)
(* (B, H*W) row-major layout.                                              *)
(***************************************************************************)
EXTENDS Integers, Sequences, FiniteSets, TLC

VARIABLES pc, call, ret, prev, xGrad

vars == <<pc, call, ret, prev, xGrad>>

-----------------------------------------------------------------------------
(* Extended rational arithmetic (the float arithmetic of torch tensors).   *)

RECURSIVE GCD(_, _)
GCD(a, b) == IF b = 0 THEN a ELSE GCD(b, a % b)

IAbs(i) == IF i < 0 THEN -i ELSE i

ISign(i) == IF i > 0 THEN 1 ELSE IF i < 0 THEN -1 ELSE 0

\* n/d in lowest terms with a positive denominator; n/0 is inf, -inf or NaN.
Norm(n, d) ==
    IF d = 0 THEN <<ISign(n), 0>>
    ELSE LET g == GCD(IAbs(n), IAbs(d))
             s == IF d < 0 THEN -1 ELSE 1
         IN  <<(s * n) \div g, (s * d) \div g>>

RInt(i) == <<i, 1>>

NaN == <<0, 0>>

PosInf == <<1, 0>>

IsFinite(a) == a[2] # 0

IsNaN(a) == a = NaN

RNeg(a) == <<-a[1], a[2]>>

RAdd(a, b) ==
    IF IsFinite(a) /\ IsFinite(b)
    THEN LET g == GCD(a[2], b[2])
         IN  Norm(a[1] * (b[2] \div g) + b[1] * (a[2] \div g), a[2] * (b[2] \div g))
    ELSE IF IsNaN(a) \/ IsNaN(b) THEN NaN
    ELSE IF IsFinite(a) THEN b
    ELSE IF IsFinite(b) THEN a
    ELSE IF a = b THEN a ELSE NaN

RSub(a, b) == RAdd(a, RNeg(b))

\* 0 * inf = NaN and inf * x = +-inf fall out of the n/0 representation.
RMul(a, b) ==
    IF IsFinite(a) /\ IsFinite(b) /\ a[1] # 0 /\ b[1] # 0
    THEN LET g1 == GCD(IAbs(a[1]), b[2])
             g2 == GCD(IAbs(b[1]), a[2])
         IN  <<(a[1] \div g1) * (b[1] \div g2), (a[2] \div g2) * (b[2] \div g1)>>
    ELSE Norm(a[1] * b[1], a[2] * b[2])

\* pow(-1): the reciprocal; 0 ** -1 = inf, inf ** -1 = 0.
RInv(a) == Norm(a[2], a[1])

RDiv(a, b) == RMul(a, RInv(b))

RPow2(a) == RMul(a, a)

RAbs(a) == <<IAbs(a[1]), a[2]>>

\* the integer square root of n by bisection: lo * lo <= n < hi * hi
RECURSIVE ISqrtBetween(_, _, _)
ISqrtBetween(n, lo, hi) ==
    IF hi - lo <= 1 THEN lo
    ELSE LET mid == (lo + hi) \div 2
         IN  IF mid * mid <= n THEN ISqrtBetween(n, mid, hi) ELSE ISqrtBetween(n, lo, mid)

ISqrt(n) == ISqrtBetween(n, 0, IF n < 46340 THEN n + 1 ELSE 46341)

\* the greatest numerator and denominator the square roots below are kept in
RootLimit == 46340 * 46340

\* The continued fraction of sqrt(M) for M not a square, a0 = floor(sqrt(M)):
\* from the state (m, d, a) of the expansion and the last two convergents
\* h1/k1 and h0/k0, the last convergent whose numerator stays within
\* RootLimit and whose denominator stays within kmax.
RECURSIVE SqrtConvergent(_, _, _, _, _, _, _, _, _, _)
SqrtConvergent(M, a0, m, d, a, h1, k1, h0, k0, kmax) ==
    LET m2 == d * a - m
        d2 == (M - m2 * m2) \div d
        a2 == (a0 + m2) \div d2
    IN  IF a2 > (RootLimit - h0) \div h1 \/ a2 > (kmax - k0) \div k1
        THEN <<h1, k1>>
        ELSE SqrtConvergent(M, a0, m2, d2, a2, a2 * h1 + h0, a2 * k1 + k0, h1, k1, kmax)

\* sqrt / pow(.5): NaN below zero, exact on the squares of rationals, and on
\* every other value n/d the rational sqrt(n*d)/d with sqrt(n*d) taken as
\* its closest continued-fraction convergent within the integer width (a
\* float square root is rounded as well, to 53 bits).
RSqrt(a) ==
    IF IsNaN(a) \/ a[1] < 0 THEN NaN
    ELSE IF ~IsFinite(a) THEN PosInf
    ELSE LET rn == ISqrt(a[1])
             rd == ISqrt(a[2])
         IN  IF rn * rn = a[1] /\ rd * rd = a[2] THEN Norm(rn, rd)
             ELSE LET M == a[1] * a[2]
                      a0 == ISqrt(M)
                      c == SqrtConvergent(M, a0, 0, 1, a0, a0, 1, 1, 0, RootLimit \div a[2])
                  IN  Norm(c[1], c[2] * a[2])

IsSquare(a) ==
    /\ IsFinite(a) /\ a[1] >= 0
    /\ ISqrt(a[1]) * ISqrt(a[1]) = a[1] /\ ISqrt(a[2]) * ISqrt(a[2]) = a[2]

-----------------------------------------------------------------------------
(* Tensors.                                                                *)

Rows(m) == Len(m)

Cols(m) == IF Len(m) = 0 THEN 0 ELSE Len(m[1])

\* The vector <<E(1), ..., E(n)>> and the tensor with entries E(i, j), built
\* as evaluated tuples.
Vec(n, E(_)) == [i \in 1..n |-> E(i)] \o <<>>

Mat(r, c, E(_, _)) == Vec(r, LAMBDA i : Vec(c, LAMBDA j : E(i, j)))

\* elementwise a + b, a - b, a * b of two tensors of one shape
TAdd(a, b) == Mat(Rows(a), Cols(a), LAMBDA i, j : RAdd(a[i][j], b[i][j]))

TSub(a, b) == Mat(Rows(a), Cols(a), LAMBDA i, j : RSub(a[i][j], b[i][j]))

TMul(a, b) == Mat(Rows(a), Cols(a), LAMBDA i, j : RMul(a[i][j], b[i][j]))

\* tensor * python scalar
TScale(a, c) == Mat(Rows(a), Cols(a), LAMBDA i, j : RMul(a[i][j], c))

\* tensor * v[:, None, None, None]: one factor per batch element
TScaleB(a, v) == Mat(Rows(a), Cols(a), LAMBDA i, j : RMul(a[i][j], v[i]))

\* the row-major element order of a tensor
RECURSIVE FlatFrom(_, _)
FlatFrom(m, i) == IF i > Len(m) THEN <<>> ELSE m[i] \o FlatFrom(m, i + 1)

Flat(m) == FlatFrom(m, 1)

\* Tensor.reshape(r, c): the same row-major element order under a new shape
Reshape(m, r, c) ==
    LET f == Flat(m) IN Mat(r, c, LAMBDA i, j : f[(i - 1) * c + j])

\* Tensor.T of a 2-d tensor
Transpose(m) == Mat(Cols(m), Rows(m), LAMBDA j, i : m[i][j])

RECURSIVE SumSeq(_, _)
SumSeq(s, i) == IF i > Len(s) THEN RInt(0) ELSE RAdd(s[i], SumSeq(s, i + 1))

\* matrix-vector product A v
MatVec(A, v) ==
    Vec(Rows(A), LAMBDA i : SumSeq(Vec(Len(v), LAMBDA j : RMul(A[i][j], v[j])), 1))

IntT(m) == Mat(Len(m), Cols(m), LAMBDA i, j : RInt(m[i][j]))

ZerosLike(m) == Mat(Rows(m), Cols(m), LAMBDA i, j : RInt(0))

-----------------------------------------------------------------------------
(* The capabilities the samplers consume: the SDE descriptor, the score    *)
(* model, the forward operator and the data-fit function.                  *)

RECURSIVE IPow(_, _)
IPow(b, e) == IF e = 0 THEN 1 ELSE b * IPow(b, e - 1)

\* VE schedule: sigma_min * (sigma_max / sigma_min) ^ t, per batch element.
\* Times are whole multiples of the grid spacing.
marginal_prob_std(sde, t) ==
    Vec(Len(t), LAMBDA b : RInt(sde.sigma_min * IPow(sde.ratio, t[b])))

\* VE schedule: sigma(t) * sqrt(2 ln(sigma_max / sigma_min)); sde.g is that root.
diffusion_coeff(sde, t) ==
    LET std == marginal_prob_std(sde, t) IN Vec(Len(t), LAMBDA b : RMul(std[b], sde.g))

RSign(a) == RInt(ISign(a[1]))

\* The score model, one of two families with a time-dependent mean t:
\* "linear", s(x, t) = k * (t - x), with Jacobian ds/dx = -k, and
\* "laplace", s(x, t) = k * sign(t - x), with Jacobian 0.
score(sc, x, t) ==
    Mat(Rows(x), Cols(x), LAMBDA b, p :
        LET d == RSub(RInt(t[b]), x[b][p])
        IN  RMul(sc.k, IF sc.kind = "linear" THEN d ELSE IF IsNaN(d) THEN NaN ELSE RSign(d)))

score_jacobian(sc) == IF sc.kind = "linear" THEN RNeg(sc.k) ELSE RInt(0)

\* The forward operator A on every batch element, and its adjoint.
ray_trafo(A, x) == Vec(Rows(x), LAMBDA b : MatVec(A, x[b]))

trafo_adjoint(A, y) == LET At == Transpose(A) IN Vec(Rows(y), LAMBDA b : MatVec(At, y[b]))

\* The data-fit function: the squared residual norm |observation - A v|^2.
nloglik(nl, v) ==
    LET r == TSub(nl.observation, ray_trafo(nl.A, v))
    IN  SumSeq(Flat(TMul(r, r)), 1)

\* Its gradient with respect to its input v: -2 A^T (observation - A v).
nloglik_grad_at(nl, v) ==
    TScale(trafo_adjoint(nl.A, TSub(nl.observation, ray_trafo(nl.A, v))), RInt(-2))

\* Option values: <<>> is None, <<v>> is a supplied value.
None == <<>>

Some(v) == <<v>>

IsNone(o) == o = <<>>

Val(o) == o[1]

NoRet == [fn |-> "none"]

-----------------------------------------------------------------------------
(* Euler_Maruyama_VE_sde_predictor (samplers/utils.py, lines 10-61).       *)

\* the precondition of line 42 without its guard on the data-fit function
EM_assert_unguarded(a) == ~IsNone(a.datafitscale) /\ ~IsNone(a.penalty)

\* line 42: the precondition on a supplied data-fit function
EM_assert_ok(a) ==
    IsNone(a.nloglik) \/ (~IsNone(a.datafitscale) /\ ~IsNone(a.penalty))

\* line 44: s = score(x, time_step)
EM_s(a) == score(a.score, a.x, a.time_step)

\* line 46: xhat0 = x + s * sde.marginal_prob_std(time_step)[:, None, None, None].pow(2)
EM_xhat0(a) ==
    LET std == marginal_prob_std(a.sde, a.time_step)
    IN  TAdd(a.x, TScaleB(EM_s(a), Vec(Len(std), LAMBDA b : RPow2(std[b]))))

\* line 47: the point the data-fit function is evaluated at
EM_nloglik_input(a) == IF a.aTweedy THEN EM_xhat0(a) ELSE a.x

\* line 47: loss = nloglik(x if not aTweedy else xhat0)
EM_loss(a) == nloglik(Val(a.nloglik), EM_nloglik_input(a))

\* line 48: torch.autograd.grad(outputs=loss, inputs=x)[0].  With aTweedy the
\* loss depends on x through xhat0 = x + s(x) * std^2 as well (s is not
\* detached), so the chain rule brings the factor 1 + std^2 * ds/dx.
EM_nloglik_grad(a) ==
    LET g == nloglik_grad_at(Val(a.nloglik), EM_nloglik_input(a))
        std == marginal_prob_std(a.sde, a.time_step)
    IN  IF a.aTweedy
        THEN TScaleB(g, Vec(Len(std), LAMBDA b :
                 RAdd(RInt(1), RMul(RPow2(std[b]), score_jacobian(a.score)))))
        ELSE g

\* lines 50-51: eta = diffusion.pow(2) * step_size, per batch element
EM_eta(a) ==
    LET d == diffusion_coeff(a.sde, a.time_step)
    IN  Vec(Len(d), LAMBDA b : RMul(RPow2(d[b]), a.step_size))

\* line 54 without the factor eta
EM_datafit_no_eta(a) == EM_nloglik_grad(a)

\* line 54: datafit = nloglik_grad * eta
EM_datafit(a) == TScaleB(EM_nloglik_grad(a), EM_eta(a))

\* line 56: datafitscale = loss.pow(-1) with aTweedy, else the caller's value
EM_datafitscale(a) == IF a.aTweedy THEN RInv(EM_loss(a)) ELSE Val(a.datafitscale)

\* lines 52-57: x_mean = x + s * eta [- penalty * datafit * datafitscale]
EM_x_mean(a) ==
    LET drift == TAdd(a.x, TScaleB(EM_s(a), EM_eta(a)))
    IN  IF IsNone(a.nloglik) THEN drift
        ELSE TSub(drift, TScale(TScale(EM_datafit(a), Val(a.penalty)), EM_datafitscale(a)))

\* line 58 without the square root
EM_noise_no_sqrt(a) == TScaleB(a.noise, EM_eta(a))

\* line 58: noise = eta.pow(.5) * torch.randn_like(x)
EM_noise(a) ==
    LET e == EM_eta(a) IN TScaleB(a.noise, Vec(Len(e), LAMBDA b : RSqrt(e[b])))

\* The whole call: what it returns and what it did on the way.
Euler_Maruyama_VE_sde_predictor(a) ==
    IF ~EM_assert_ok(a)
    THEN [fn |-> "em", status |-> "AssertionError",
          input_requires_grad |-> a.x_requires_grad, input_after |-> a.x,
          score_calls |-> <<>>, nloglik_calls |-> <<>>]
    ELSE [fn |-> "em", status |-> "ok",
          x_next |-> TAdd(EM_x_mean(a), EM_noise(a)),     \* line 59, detached at 61
          x_mean |-> EM_x_mean(a),
          x_next_requires_grad |-> FALSE,                  \* x.detach()
          x_mean_requires_grad |-> FALSE,                  \* x_mean.detach()
          input_requires_grad |-> TRUE,                    \* line 43: x.requires_grad_()
          input_after |-> a.x,
          score_calls |-> <<[x |-> a.x, t |-> a.time_step]>>,
          nloglik_calls |-> IF IsNone(a.nloglik) THEN <<>> ELSE <<EM_nloglik_input(a)>>]

-----------------------------------------------------------------------------
(* Langevin_VE_sde_corrector (samplers/utils.py, lines 63-90).             *)

\* line 78: the precondition on a supplied data-fit function
LV_assert_ok(a) ==
    IsNone(a.nloglik) \/ (~IsNone(a.datafitscale) /\ ~IsNone(a.penalty))

\* line 83: overall_grad = s - penalty*nloglik_grad*datafitscale, or s
LV_overall_grad(a, x) ==
    LET s == score(a.score, x, a.time_step)                    \* line 81
    IN  IF IsNone(a.nloglik) THEN s
        ELSE TSub(s, TScale(TScale(nloglik_grad_at(Val(a.nloglik), x), Val(a.penalty)),
                            Val(a.datafitscale)))

\* lines 84-86: the mean over the batch of the 2-norms of the flattened rows
LV_grad_norm(g) ==
    LET norms == Vec(Rows(g), LAMBDA b : RSqrt(SumSeq(Vec(Cols(g), LAMBDA p : RPow2(g[b][p])), 1)))
    IN  RDiv(SumSeq(norms, 1), RInt(Rows(g)))

\* line 87: noise_norm = np.sqrt(np.prod(x.shape[1:]))
LV_noise_norm(x) == RSqrt(RInt(Cols(x)))

\* line 88: langevin_step_size = 2 * (snr * noise_norm / overall_grad_norm)**2
LV_step_size(a, x) ==
    RMul(RInt(2), RPow2(RDiv(RMul(a.snr, LV_noise_norm(x)),
                             LV_grad_norm(LV_overall_grad(a, x)))))

\* line 89: one pass of the loop body, with the noise draw of that pass
LV_step(a, x, noise) ==
    LET g == LV_overall_grad(a, x)
        h == LV_step_size(a, x)
    IN  TAdd(TAdd(x, TScale(g, h)), TScale(noise, RSqrt(RMul(RInt(2), h))))

\* the loop with every pass starting from the input state
LV_x_restart(a, n) == IF n = 0 THEN a.x ELSE LV_step(a, a.x, a.noises[n])

\* the state after n passes of the loop
RECURSIVE LV_x(_, _)
LV_x(a, n) == IF n = 0 THEN a.x ELSE LV_step(a, LV_x(a, n - 1), a.noises[n])

\* The whole call: what it returns and what it did on the way.
Langevin_VE_sde_corrector(a) ==
    IF ~LV_assert_ok(a)
    THEN [fn |-> "langevin", status |-> "AssertionError",
          input_requires_grad |-> a.x_requires_grad, input_after |-> a.x,
          score_calls |-> <<>>, nloglik_calls |-> <<>>]
    ELSE LET n == a.corrector_steps                           \* line 79
         IN  [fn |-> "langevin", status |-> "ok",
              x_next |-> LV_x(a, n),
              x_next_requires_grad |-> FALSE,                  \* line 90: x.detach()
              \* line 80: x.requires_grad_() marks the caller's tensor in pass 1
              input_requires_grad |-> IF n >= 1 THEN TRUE ELSE a.x_requires_grad,
              input_after |-> a.x,
              score_calls |-> Vec(n, LAMBDA i : [x |-> LV_x(a, i - 1), t |-> a.time_step]),
              nloglik_calls |-> IF IsNone(a.nloglik) THEN <<>>
                                ELSE Vec(n, LAMBDA i : LV_x(a, i - 1))]

-----------------------------------------------------------------------------
(* conj_grad_closure and decomposed_diffusion_sampling_VE_sde_predictor    *)
(* (samplers/utils.py, lines 92-156).                                      *)

\* line 153: the default of the closure's eps
DefaultEps == Norm(1, 100000)

\* line 129: the factor on the right-hand side
RhsScale == Norm(1, 100000)

\* lines 154-156: x of shape (P, B) goes to images (B, 1, H, W) by x.T, through
\* eps * A^T A x + x, and back to (P, B) by .view(B, P).T
conj_grad_closure(x, A, eps) ==
    LET batch_size == Cols(x)
        img == Reshape(Transpose(x), batch_size, Rows(x))
        out == TAdd(TScale(trafo_adjoint(A, ray_trafo(A, img)), eps), img)
    IN  Transpose(Reshape(out, batch_size, Rows(x)))

\* Whether the closure the caller bound can be called: conj_grad_closure has
\* the parameters x, ray_trafo and eps, and get_standard_sampler binds the
\* keyword gamma (exp_utils.py lines 108-112), with which every call of the
\* closure is a TypeError.
DD_closure_callable(a) == IsNone(a.gamma)

\* a callable closure: eps is its default unless the caller bound it
DD_closure(a, v) ==
    conj_grad_closure(v, a.A, IF IsNone(a.eps) THEN DefaultEps ELSE Val(a.eps))

\* The linear solver, which performs its first matrix-vector product on the
\* initial guess and returns its best iterate: the initial guess when it may
\* not iterate or has no residual, else the guess advanced along the first
\* residual by the step length the run draws.
linear_cg(a, rhs, initial_guess) ==
    LET residual == TSub(rhs, DD_closure(a, initial_guess))
    IN  IF a.max_iter = 0 THEN initial_guess
        ELSE TAdd(initial_guess, TScale(residual, a.cg_progress))

\* line 121: s = score(x, time_step).detach()
DD_s(a) == score(a.score, a.x, a.time_step)

\* lines 122-123: xhat0 = x + s * std.pow(2)
DD_xhat0(a) ==
    LET std == marginal_prob_std(a.sde, a.time_step)
    IN  TAdd(a.x, TScaleB(DD_s(a), Vec(Len(std), LAMBDA b : RPow2(std[b]))))

DD_pixels(a) == Cols(a.x)

DD_batch(a) == Rows(a.x)

\* line 125: rhs.reshape(prod(xhat0.shape[2:]), xhat0.shape[0]) needs as many
\* elements in rhs as in xhat0
DD_reshape_ok(a) == Rows(a.rhs) * Cols(a.rhs) = DD_pixels(a) * DD_batch(a)

\* line 125
DD_rhs_flat(a) == Reshape(a.rhs, DD_pixels(a), DD_batch(a))

\* lines 126, 130
DD_xhat0_flat(a) == Reshape(DD_xhat0(a), DD_pixels(a), DD_batch(a))

\* line 129: rhs = rhs_flat*1e-5 + xhat0_flat
DD_cg_rhs(a) == TAdd(TScale(DD_rhs_flat(a), RhsScale), DD_xhat0_flat(a))

\* lines 127-133: xhat = linear_cg(...)[0].T.view(B, 1, H, W); the view of the
\* transposed (P, B) result splits its pixel axis only, so it keeps the
\* transposed element order
DD_xhat(a) ==
    LET sol == linear_cg(a, DD_cg_rhs(a), DD_xhat0_flat(a))
    IN  Reshape(Transpose(sol), DD_batch(a), DD_pixels(a))

\* line 144
DD_std_t(a) == marginal_prob_std(a.sde, a.time_step)

\* line 145: the time vector minus the step size
DD_std_tminus1(a) ==
    marginal_prob_std(a.sde, Vec(Len(a.time_step), LAMBDA b : a.time_step[b] - a.step_size))

\* line 146: beta = 1 - std_tminus1.pow(2)/std_t.pow(2)
DD_beta(a) ==
    LET st == DD_std_t(a)
        sm == DD_std_tminus1(a)
    IN  Vec(Len(st), LAMBDA b : RSub(RInt(1), RDiv(RPow2(sm[b]), RPow2(st[b]))))

\* line 147: noise_deterministic = - std_tminus1*std_t*sqrt(1-beta^2*eta^2)*s
DD_noise_deterministic(a) ==
    LET st == DD_std_t(a)
        sm == DD_std_tminus1(a)
        be == DD_beta(a)
    IN  TScaleB(DD_s(a), Vec(Len(st), LAMBDA b :
            RNeg(RMul(RMul(sm[b], st[b]),
                      RSqrt(RSub(RInt(1), RMul(RPow2(be[b]), RPow2(a.eta))))))))

\* line 148 without the factor eta
DD_noise_stochastic_no_eta(a) ==
    LET sm == DD_std_tminus1(a)
        be == DD_beta(a)
    IN  TScaleB(a.noise, Vec(Len(sm), LAMBDA b : RMul(sm[b], be[b])))

\* line 148: noise_stochastic = std_tminus1*eta*beta*torch.randn_like(x)
DD_noise_stochastic(a) ==
    LET sm == DD_std_tminus1(a)
        be == DD_beta(a)
    IN  TScaleB(a.noise, Vec(Len(sm), LAMBDA b : RMul(RMul(sm[b], a.eta), be[b])))

\* The whole call: what it returns and what it did on the way.  The solver
\* is handed DD_closure, cg_rhs and cg_initial_guess; cg_matvec0 is its
\* first product, that of the closure and the initial guess.
decomposed_diffusion_sampling_VE_sde_predictor(a) ==
    IF ~DD_reshape_ok(a)
    THEN [fn |-> "dds", status |-> "RuntimeError",
          input_requires_grad |-> a.x_requires_grad, input_after |-> a.x,
          score_calls |-> <<[x |-> a.x, t |-> a.time_step]>>]
    ELSE IF ~DD_closure_callable(a)
    \* lines 127-132: the solver calls the closure on the initial guess
    THEN [fn |-> "dds", status |-> "TypeError",
          input_requires_grad |-> a.x_requires_grad, input_after |-> a.x,
          score_calls |-> <<[x |-> a.x, t |-> a.time_step]>>]
    ELSE [fn |-> "dds", status |-> "ok",
          \* line 149, detached at line 151
          x_next |-> TAdd(TAdd(DD_xhat(a), DD_noise_deterministic(a)), DD_noise_stochastic(a)),
          x_mean |-> DD_xhat(a),
          x_next_requires_grad |-> FALSE,
          \* line 151 returns xhat as computed from x, not detached
          x_mean_requires_grad |-> a.x_requires_grad,
          input_requires_grad |-> a.x_requires_grad,
          input_after |-> a.x,
          score_calls |-> <<[x |-> a.x, t |-> a.time_step]>>,
          cg_rhs |-> DD_cg_rhs(a),
          cg_initial_guess |-> DD_xhat0_flat(a),
          cg_matvec0 |-> DD_closure(a, DD_xhat0_flat(a))]

-----------------------------------------------------------------------------
(* The factories of utils/exp_utils.py.  A string is the sequence of its   *)
(* characters.                                                             *)

UpperCase == <<"A", "B", "C", "D", "E", "F", "G", "H", "I", "J", "K", "L", "M", "N", "O", "P", "Q", "R", "S", "T", "U", "V", "W", "X", "Y", "Z">>

LowerCase == <<"a", "b", "c", "d", "e", "f", "g", "h", "i", "j", "k", "l", "m", "n", "o", "p", "q", "r", "s", "t", "u", "v", "w", "x", "y", "z">>

\* str.lower(): every upper-case letter replaced by its lower-case letter
lower(str) ==
    Vec(Len(str), LAMBDA i :
        IF \E k \in 1..Len(UpperCase) : UpperCase[k] = str[i]
        THEN LowerCase[CHOOSE k \in 1..Len(UpperCase) : UpperCase[k] = str[i]]
        ELSE str[i])

\* the string literals the factories compare with
S_vesde == <<"v", "e", "s", "d", "e">>

S_vpsde == <<"v", "p", "s", "d", "e">>

S_naive == <<"n", "a", "i", "v", "e">>

S_dps == <<"d", "p", "s">>

S_dds == <<"d", "d", "s">>

S_DiskDistributedEllipsesDataset == <<"D", "i", "s", "k", "D", "i", "s", "t", "r", "i", "b", "u", "t", "e", "d", "E", "l", "l", "i", "p", "s", "e", "s", "D", "a", "t", "a", "s", "e", "t">>

S_Walnut == <<"W", "a", "l", "n", "u", "t">>

S_LoDoPabCT == <<"L", "o", "D", "o", "P", "a", "b", "C", "T">>

S_Mayo == <<"M", "a", "y", "o">>

S_EllipseDatasetFromDival == <<"E", "l", "l", "i", "p", "s", "e", "D", "a", "t", "a", "s", "e", "t", "F", "r", "o", "m", "D", "i", "v", "a", "l">>

S_ellipses == <<"e", "l", "l", "i", "p", "s", "e", "s">>

S_lodopab == <<"l", "o", "d", "o", "p", "a", "b">>

S_walnut == <<"w", "a", "l", "n", "u", "t">>

S_mayo == <<"m", "a", "y", "o">>

Raised(f, e) == [fn |-> f, status |-> e]

Returned(f, v) == [fn |-> f, status |-> "ok", value |-> v]

\* lines 53-68
get_standard_sde(a) ==
    IF lower(a.type) = S_vesde THEN Returned("get_standard_sde", "VESDE")
    ELSE IF lower(a.type) = S_vpsde THEN Returned("get_standard_sde", "VPSDE")
    ELSE Raised("get_standard_sde", "NotImplementedError")

\* b^e modulo m
RECURSIVE PowMod(_, _, _)
PowMod(b, e, m) == IF e = 0 THEN 1 % m ELSE (b * PowMod(b, e - 1, m)) % m

RECURSIVE IsPow2(_)
IsPow2(d) == d = 1 \/ (d > 1 /\ d % 2 = 0 /\ IsPow2(d \div 2))

\* the exponent e with 2^e <= n/d < 2^(e+1), for n/d > 0
RECURSIVE FloorLog2(_, _)
FloorLog2(n, d) ==
    IF n < d THEN FloorLog2(2 * n, d) - 1
    ELSE IF n >= 2 * d THEN FloorLog2(n, 2 * d) + 1
    ELSE 0

\* math.ceil(float(p) * int(n)) for the decimal p = num/den, in double
\* arithmetic.  float(p) is p rounded to 53 bits; the product with n is
\* rounded again.  The result is the exact ceiling of p * n unless p * n is a
\* whole number k, p is not a dyadic fraction, float(p) was rounded up, and
\* the excess n * (float(p) - p) is more than half the spacing of the doubles
\* at k: then the product is above k and the ceiling is k + 1.
CeilMul(p, n) ==
    LET q == Norm(p[1], p[2])
        num == q[1]
        den == q[2]
        x == num * n
        k == x \div den
    IN  IF num = 0 \/ x % den # 0 \/ IsPow2(den) THEN -((-x) \div den)
        ELSE LET ep == FloorLog2(num, den)
                 ek == FloorLog2(k, 1)
                 r == (num * PowMod(2, 52 - ep, den)) % den
             IN  IF 2 * r > den /\ 2 * n * (den - r) > den * IPow(2, ek - ep)
                 THEN k + 1
                 ELSE k

\* lines 70-153: the predictor and sample_kwargs of the method, the optional
\* corrector (lines 124-129), and the chain initializer, bound exactly when
\* the start index is positive (lines 131-141).  For 'dds' the closure is
\* bound with the keywords ray_trafo and gamma (lines 108-112).
get_standard_sampler(a) ==
    LET m == lower(a.method)
        start == CeilMul(a.pct_chain_elapsed, a.num_steps)      \* lines 78, 92, 102
        sampler(predictor, kwargs, bound) ==
            Returned("get_standard_sampler",
                [predictor |-> predictor,
                 predictor_bound |-> bound,
                 num_steps |-> a.num_steps,
                 start_time_step |-> start,
                 predictor_kwargs |-> kwargs,
                 corrector |-> IF a.add_corrector_step
                               THEN Some([fn |-> "Langevin_sde_corrector", corrector_steps |-> 5,
                                          penalty |-> a.penalty])
                               ELSE None,
                 init_chain_fn |-> IF start > 0
                                   THEN Some([fn |-> "chain_simple_init", start_time_step |-> start,
                                              im_shape |-> "ray_trafo.im_shape"])
                                   ELSE None])
    IN  IF m = S_naive
        THEN sampler("Euler_Maruyama_sde_predictor", [aTweedy |-> FALSE, penalty |-> a.penalty],
                     {"nloglik"})
        ELSE IF m = S_dps
        THEN sampler("Euler_Maruyama_sde_predictor", [aTweedy |-> TRUE, penalty |-> a.penalty],
                     {"nloglik"})
        ELSE IF m = S_dds
        THEN sampler("decomposed_diffusion_sampling_sde_predictor",
                     [eta |-> a.eta, gamma |-> a.gamma, use_simplified_eqn |-> TRUE],
                     [conj_grad_closure |-> [ray_trafo |-> "ray_trafo", gamma |-> a.gamma],
                      cg_kwargs |-> [max_iter |-> 5, max_tridiag_iter |-> 4]])
        ELSE Raised("get_standard_sampler", "NotImplementedError")

\* lines 188-212; ray_trafo defaults to None, and line 207 reads
\* ray_trafo.im_shape
get_standard_dataset(a) ==
    LET n == lower(a.name)
    IN  IF n = lower(S_DiskDistributedEllipsesDataset)
        THEN Returned("get_standard_dataset", "get_disk_dist_ellipses_dataset")
        ELSE IF n = lower(S_Walnut) THEN Returned("get_standard_dataset", "get_walnut_data")
        ELSE IF n = lower(S_LoDoPabCT)
        THEN Returned("get_standard_dataset", "LoDoPabDatasetFromDival")
        ELSE IF n = lower(S_Mayo)
        THEN IF a.ray_trafo_given THEN Returned("get_standard_dataset", "MayoDataset")
             ELSE Raised("get_standard_dataset", "AttributeError")
        ELSE Raised("get_standard_dataset", "NotImplementedError")

\* lines 214-248: the chain of tests has no else branch, so an unrecognized
\* name reaches "return train_dl" with train_dl unbound; line 233 calls
\* get_one_ellipses_dataset, a name the module never imports or defines
get_standard_train_dataset(a) ==
    LET n == lower(a.name)
    IN  IF n = lower(S_EllipseDatasetFromDival)
        THEN Returned("get_standard_train_dataset", "EllipseDatasetFromDival")
        ELSE IF n = lower(S_DiskDistributedEllipsesDataset)
        THEN IF a.num_n_ellipse > 1
             THEN Returned("get_standard_train_dataset", "get_disk_dist_ellipses_dataset")
             ELSE Raised("get_standard_train_dataset", "NameError")
        ELSE IF n = lower(S_LoDoPabCT)
        THEN Returned("get_standard_train_dataset", "LoDoPabDatasetFromDival")
        ELSE Raised("get_standard_train_dataset", "UnboundLocalError")

\* lines 252-263: the score-model configuration; with model_learned_on
\* 'lodopab' and an sde that is neither 'vesde' nor 'vpsde' nothing is
\* imported and line 263 calls the unbound local get_config
GSC_config(a) ==
    LET m == lower(a.model_learned_on)
    IN  IF m = S_ellipses THEN Some("disk_ellipses_configs")
        ELSE IF m = S_lodopab
        THEN IF lower(a.sde) = S_vesde THEN Some("lodopab_configs")
             ELSE IF lower(a.sde) = S_vpsde THEN Some("lodopab_vpsde_configs")
             ELSE None
        ELSE None

\* lines 265-275: the validation-dataset configuration
GSC_dataconfig(a) ==
    LET d == lower(a.dataset)
    IN  IF d = S_ellipses THEN Some("disk_ellipses_configs")
        ELSE IF d = S_lodopab THEN Some("lodopab_configs")
        ELSE IF d = S_walnut THEN Some("walnut_configs")
        ELSE IF d = S_mayo THEN Some("mayo_configs")
        ELSE None

\* lines 250-277
get_standard_configs(a) ==
    IF IsNone(GSC_config(a))
    THEN IF lower(a.model_learned_on) = S_lodopab
         THEN Raised("get_standard_configs", "UnboundLocalError")
         ELSE Raised("get_standard_configs", "NotImplementedError")
    ELSE IF IsNone(GSC_dataconfig(a))
    THEN Raised("get_standard_configs", "NotImplementedError")
    ELSE Returned("get_standard_configs", <<Val(GSC_config(a)), Val(GSC_dataconfig(a))>>)

-----------------------------------------------------------------------------
(* The inputs the calls are drawn from.                                    *)

MaxBatch == 2

MaxPixels == 2

\* image shapes (H, W) = (1, P)
Shapes == {[B |-> b, H |-> 1, W |-> p] : b \in 1..MaxBatch, p \in 1..MaxPixels}

\* state tensors of shape (B, P): all zero, or counting up along the memory order
XSet(sh) ==
    LET P == sh.H * sh.W
    IN  {[b \in 1..sh.B |-> [p \in 1..P |-> RInt(0)]],
         [b \in 1..sh.B |-> [p \in 1..P |-> RInt((b - 1) * P + p)]]}

\* draws of torch.randn_like(x)
NoiseSet(sh) ==
    LET P == sh.H * sh.W
    IN  {[b \in 1..sh.B |-> [p \in 1..P |-> RInt(1)]],
         [b \in 1..sh.B |-> [p \in 1..P |-> RInt(b - 2 * p)]]}

\* time_step: one grid time for the whole batch
TimeSet(sh) == {[b \in 1..sh.B |-> t] : t \in 1..2}

\* the decomposed predictor is run at the first grid time, where its right-hand
\* side stays within the integers
DDTimeSet(sh) == {[b \in 1..sh.B |-> 1]}

EMSdeSet == {[sigma_min |-> 1, ratio |-> 2, g |-> RInt(1)]}

ScoreSet == {[kind |-> "linear", k |-> RInt(1)], [kind |-> "linear", k |-> Norm(-1, 2)]}

LVScoreSet == {[kind |-> "linear", k |-> RInt(1)], [kind |-> "laplace", k |-> RInt(1)]}

\* forward operators on P pixels: upper triangular ones
RaySet(sh) ==
    LET P == sh.H * sh.W
    IN  {[i \in 1..P |-> [j \in 1..P |-> RInt(IF j >= i THEN 1 ELSE 0)]]}

StepSet == {RInt(0), RInt(1)}

\* (datafitscale, penalty) as the caller passes them
ScalingSet(d, p) == {<<None, None>>, <<None, Some(p)>>, <<Some(d), None>>, <<Some(d), Some(p)>>}

\* Every argument of the predictor but the data-fit function.
EMBase ==
    UNION {[x : XSet(sh), x_requires_grad : BOOLEAN, time_step : TimeSet(sh),
            step_size : StepSet, sde : EMSdeSet, score : ScoreSet,
            scaling : ScalingSet(RInt(3), RInt(2)), aTweedy : BOOLEAN, noise : NoiseSet(sh),
            A : RaySet(sh)] : sh \in Shapes}

EMArgs(c, nl) ==
    [fn |-> "em", x |-> c.x, x_requires_grad |-> c.x_requires_grad,
     time_step |-> c.time_step, step_size |-> c.step_size, sde |-> c.sde,
     score |-> c.score, nloglik |-> nl, datafitscale |-> c.scaling[1],
     penalty |-> c.scaling[2], aTweedy |-> c.aTweedy, noise |-> c.noise]

\* The data-fit functions tried with base arguments c: none, an observation of
\* ones, and the observation the evaluated point reproduces exactly.
EMCallsOf(c) ==
    LET probe == EMArgs(c, None)
        ones == Mat(Rows(c.x), Rows(c.A), LAMBDA b, m : RInt(1))
    IN  {EMArgs(c, None),
         EMArgs(c, Some([A |-> c.A, observation |-> ones])),
         EMArgs(c, Some([A |-> c.A, observation |-> ray_trafo(c.A, EM_nloglik_input(probe))]))}

EMCalls == UNION {EMCallsOf(c) : c \in EMBase}

MaxCorrectorSteps == 2

\* The corrector is run on one-pixel images, where the norms of lines 84-87
\* are rational.
LVShapes == {[B |-> b, H |-> 1, W |-> 1] : b \in 1..MaxBatch}

SnrSet == {Norm(1, 2), RInt(1)}

\* one noise draw per pass: the same draw every pass, or its negation on
\* every second pass
NoiseSeqs(sh, n) ==
    {Vec(n, LAMBDA i : z) : z \in NoiseSet(sh)}
    \cup {Vec(n, LAMBDA i : IF i % 2 = 1 THEN z ELSE TScale(z, RInt(-1))) : z \in NoiseSet(sh)}

LVBase ==
    UNION {[x : XSet(sh), x_requires_grad : BOOLEAN, time_step : TimeSet(sh),
            sde : EMSdeSet, score : LVScoreSet, scaling : ScalingSet(RInt(1), Norm(1, 2)),
            corrector_steps : 0..MaxCorrectorSteps, snr : SnrSet,
            noises : NoiseSeqs(sh, MaxCorrectorSteps), A : RaySet(sh)] : sh \in LVShapes}

LVArgs(c, nl) ==
    [fn |-> "langevin", x |-> c.x, x_requires_grad |-> c.x_requires_grad,
     time_step |-> c.time_step, sde |-> c.sde, score |-> c.score, nloglik |-> nl,
     datafitscale |-> c.scaling[1], penalty |-> c.scaling[2],
     corrector_steps |-> c.corrector_steps, snr |-> c.snr, noises |-> c.noises]

LVCallsOf(c) ==
    LET ones == Mat(Rows(c.x), Rows(c.A), LAMBDA b, m : RInt(1))
    IN  {LVArgs(c, None),
         LVArgs(c, Some([A |-> c.A, observation |-> ones])),
         LVArgs(c, Some([A |-> c.A, observation |-> ray_trafo(c.A, c.x)]))}

\* The exact rationals of a linear score or a data-fit gradient outgrow the
\* integers after two passes; longer runs are made with the bounded score.
LVCalls ==
    {a \in UNION {LVCallsOf(c) : c \in LVBase} :
        a.corrector_steps <= 2 \/ (a.score.kind = "laplace" /\ IsNone(a.nloglik))}

DDSdeSet == {[sigma_min |-> 1, ratio |-> 5, g |-> RInt(1)]}

\* the measurement term A^T y the caller passes as rhs: one per batch element,
\* or the single one of an unbatched observation
RhsSet(sh) ==
    LET P == sh.H * sh.W
    IN  {Mat(sh.B, P, LAMBDA b, p : RInt(10 * b + p)), Mat(1, P, LAMBDA b, p : RInt(10 + p))}

EtaSet == {RInt(0), RInt(1)}

EpsSet == {None, Some(RInt(2))}

\* the keyword gamma as get_standard_sampler binds it to the closure, or not
GammaSet == {None, Some(RInt(2))}

\* the closure is bound with eps, with gamma, or with neither
DDCalls ==
    {c \in UNION {[fn : {"dds"}, x : XSet(sh), x_requires_grad : BOOLEAN, rhs : RhsSet(sh),
                   time_step : DDTimeSet(sh), A : RaySet(sh), eps : EpsSet, gamma : GammaSet,
                   eta : EtaSet, step_size : 0..1, max_iter : {0, 5}, cg_progress : {RInt(1)},
                   score : ScoreSet, sde : DDSdeSet,
                   noise : NoiseSet(sh)] : sh \in Shapes} :
        IsNone(c.eps) \/ IsNone(c.gamma)}

\* selector strings: the literals, in other cases, and strings no factory knows
Unknown == {<<>>, <<"s", "d", "e">>, <<"v", "e", "s", "d", "e", "2">>, <<"o", "t", "h", "e", "r">>}

SdeNames == {S_vesde, S_vpsde, <<"V", "E", "S", "D", "E">>, <<"V", "p", "S", "d", "e">>} \cup Unknown

MethodNames == {S_naive, S_dps, S_dds, <<"N", "a", "i", "v", "e">>, <<"D", "D", "S">>} \cup Unknown

DatasetNames ==
    {S_DiskDistributedEllipsesDataset, S_Walnut, S_LoDoPabCT, S_Mayo, S_EllipseDatasetFromDival,
     lower(S_DiskDistributedEllipsesDataset), <<"W", "A", "L", "N", "U", "T">>, <<"l", "o", "d", "o", "p", "a", "b", "c", "t">>, <<"M", "A", "Y", "O">>} \cup Unknown

ConfigNames == {S_ellipses, S_lodopab, S_walnut, S_mayo, <<"E", "l", "l", "i", "p", "s", "e", "s">>, <<"L", "o", "D", "o", "P", "a", "b">>} \cup Unknown

MaxSteps == 3

\* args.pct_chain_elapsed, a decimal string: 0, 0.25, 0.28, 0.5, 1
PctSet == {<<0, 1>>, <<1, 4>>, <<7, 25>>, <<1, 2>>, <<1, 1>>}

\* args.num_steps: the small counts, and one where float(p) * N is not p * N
StepCounts == 1..MaxSteps \cup {25}

FactoryCalls ==
    [fn : {"get_standard_sde"}, type : SdeNames]
    \cup [fn : {"get_standard_sampler"}, method : MethodNames, num_steps : StepCounts,
          pct_chain_elapsed : PctSet, add_corrector_step : BOOLEAN,
          penalty : {RInt(1)}, eta : {Norm(1, 2)}, gamma : {RInt(2)}]
    \cup [fn : {"get_standard_dataset"}, name : DatasetNames, ray_trafo_given : BOOLEAN]
    \cup [fn : {"get_standard_train_dataset"}, name : DatasetNames, num_n_ellipse : 1..2]
    \cup [fn : {"get_standard_configs"}, model_learned_on : ConfigNames,
          sde : {S_vesde, S_vpsde, <<"V", "E", "S", "D", "E">>, <<"o", "d", "e">>}, dataset : ConfigNames]

-----------------------------------------------------------------------------
(* The state machine: a call is drawn, then made.                          *)

Calls == EMCalls \cup LVCalls \cup DDCalls

Init ==
    /\ call \in Calls
    /\ pc = "ready"
    /\ ret = NoRet
    /\ prev = NoRet
    /\ xGrad = call.x_requires_grad

CallEulerMaruyama ==
    /\ pc = "ready"
    /\ call.fn = "em"
    /\ ret' = Euler_Maruyama_VE_sde_predictor(call)
    /\ xGrad' = ret'.input_requires_grad
    /\ pc' = "done"
    /\ UNCHANGED <<call, prev>>

CallLangevin ==
    /\ pc = "ready"
    /\ call.fn = "langevin"
    /\ ret' = Langevin_VE_sde_corrector(call)
    /\ xGrad' = ret'.input_requires_grad
    /\ pc' = "done"
    /\ UNCHANGED <<call, prev>>

CallDecomposed ==
    /\ pc = "ready"
    /\ call.fn = "dds"
    /\ ret' = decomposed_diffusion_sampling_VE_sde_predictor(call)
    /\ xGrad' = ret'.input_requires_grad
    /\ pc' = "done"
    /\ UNCHANGED <<call, prev>>

\* The predictor called once more on the same arguments: only the draw of
\* torch.randn_like differs.
CallDecomposedAgain ==
    /\ pc = "done"
    /\ call.fn = "dds"
    /\ \E n \in {z \in NoiseSet([B |-> Rows(call.x), H |-> 1, W |-> Cols(call.x)]) : z # call.noise} :
          call' = [call EXCEPT !.noise = n]
    /\ prev' = [fn |-> "dds", call |-> call, ret |-> ret]
    /\ ret' = decomposed_diffusion_sampling_VE_sde_predictor(call')
    /\ xGrad' = ret'.input_requires_grad
    /\ pc' = "again"

Next == CallEulerMaruyama \/ CallLangevin \/ CallDecomposed \/ CallDecomposedAgain

Spec == Init /\ [][Next]_vars

-----------------------------------------------------------------------------
(* The factories as a state machine of their own.                          *)

InitFactory ==
    /\ call \in FactoryCalls
    /\ pc = "ready"
    /\ ret = NoRet
    /\ prev = NoRet
    /\ xGrad = FALSE

Made(f, r) ==
    /\ pc = "ready"
    /\ call.fn = f
    /\ ret' = r
    /\ pc' = "done"
    /\ UNCHANGED <<call, prev, xGrad>>

CallGetStandardSde == Made("get_standard_sde", get_standard_sde(call))

CallGetStandardSampler == Made("get_standard_sampler", get_standard_sampler(call))

CallGetStandardDataset == Made("get_standard_dataset", get_standard_dataset(call))

CallGetStandardTrainDataset ==
    Made("get_standard_train_dataset", get_standard_train_dataset(call))

CallGetStandardConfigs == Made("get_standard_configs", get_standard_configs(call))

\* The time grid the sampler builds for num_steps steps: num_steps times,
\* strictly decreasing and positive (grid times are whole numbers here).
TimeGrid(n) == Vec(n, LAMBDA i : n - i + 1)

\* time_steps[start_time_step] with a 0-based index that is never negative
IndexInRange(a) == a.start_time_step < Len(a.time_steps)

\* line 170: the sum broadcasts filtbackproj, of shape (F, 1, H, W), against
\* the noise term, whose first axis has batch_size entries: F and batch_size
\* must be equal unless one of them is 1
ChainBroadcastOk(a) ==
    Rows(a.filtbackproj) = a.batch_size \/ Rows(a.filtbackproj) = 1 \/ a.batch_size = 1

\* lines 158-170: t = ones(batch_size) * time_steps[start_time_step] (line
\* 168, an IndexError when the index is past the grid), std =
\* marginal_prob_std(t)[:, None, None, None] of shape (B, 1, 1, 1), and
\* filtbackproj + randn(batch_size, *im_shape) * std.  With im_shape = (H, W)
\* the draw has shape (B, H, W) and broadcasts against std to (B, B, H, W):
\* entry [i][j] of the noise term is randn[j] * std[i].  With im_shape =
\* (1, H, W) the noise term has shape (B, 1, H, W): entry [i][1] is randn[i] *
\* std[i].  filtbackproj broadcasts along the first axis: entry [i][j] of
\* the result carries filtbackproj[i], or filtbackproj[1] when it has one
\* batch element.  The value is kept as value[i][j], a row of pixels.
chain_simple_init(a) ==
    IF ~IndexInRange(a)
    THEN Raised("chain_simple_init", "IndexError")
    ELSE IF ~ChainBroadcastOk(a)
    THEN Raised("chain_simple_init", "RuntimeError")
    ELSE LET t == Vec(a.batch_size, LAMBDA b : a.time_steps[a.start_time_step + 1])
             std == marginal_prob_std(a.sde, t)
             F == Rows(a.filtbackproj)
             first == IF F > a.batch_size THEN F ELSE a.batch_size
             second == IF Len(a.im_shape) = 2 THEN a.batch_size ELSE 1
             img(i, j) ==
                 LET f == a.filtbackproj[IF F = 1 THEN 1 ELSE i]
                     n == IF a.batch_size = 1 THEN 1 ELSE i
                     z == IF Len(a.im_shape) = 2 THEN a.noise[j] ELSE a.noise[n]
                 IN  Vec(Len(z), LAMBDA q : RAdd(f[q], RMul(z[q], std[n])))
         IN  [fn |-> "chain_simple_init", status |-> "ok", t |-> t,
              shape |-> <<first, second>> \o
                        (IF Len(a.im_shape) = 2 THEN a.im_shape ELSE Tail(a.im_shape)),
              value |-> Vec(first, LAMBDA i : Vec(second, LAMBDA j : img(i, j)))]

\* The sampler calls the chain initializer it was given, with its time grid;
\* the initializer was bound with im_shape = ray_trafo.im_shape = (H, W).
CallChainInit ==
    /\ pc = "done"
    /\ call.fn = "get_standard_sampler"
    /\ ret.status = "ok"
    /\ ~IsNone(ret.value.init_chain_fn)
    /\ \E sh \in Shapes : \E f \in XSet([B |-> 1, H |-> sh.H, W |-> sh.W]) \cup XSet(sh) :
       \E z \in NoiseSet(sh) : \E sde \in EMSdeSet :
          ret' = chain_simple_init(
                     [time_steps |-> TimeGrid(ret.value.num_steps), sde |-> sde,
                      filtbackproj |-> f, noise |-> z, batch_size |-> sh.B,
                      im_shape |-> <<sh.H, sh.W>>,
                      start_time_step |-> Val(ret.value.init_chain_fn).start_time_step])
    /\ prev' = [fn |-> "get_standard_sampler", call |-> call, ret |-> ret]
    /\ pc' = "init"
    /\ UNCHANGED <<call, xGrad>>

NextFactory ==
    \/ CallGetStandardSde
    \/ CallGetStandardSampler
    \/ CallGetStandardDataset
    \/ CallGetStandardTrainDataset
    \/ CallGetStandardConfigs
    \/ CallChainInit

SpecFactory == InitFactory /\ [][NextFactory]_vars

-----------------------------------------------------------------------------
(* The claims.                                                             *)

Done(f) == pc \in {"done", "again"} /\ call.fn = f

MissingScaling(a) == IsNone(a.datafitscale) \/ IsNone(a.penalty)

\* C1: in the reverse-diffusion predictor and in the Langevin corrector, a
\* data-fit function supplied without penalty or without datafitscale ends
\* the call in the assertion failure with no score evaluation, no data-fit
\* evaluation and the caller's state and its tracking flag as they were; a
\* call without a data-fit function never fails on that precondition.
C1_Precondition ==
    (Done("em") \/ Done("langevin")) =>
        /\ (~IsNone(call.nloglik) /\ MissingScaling(call)) =>
              /\ ret.status = "AssertionError"
              /\ ret.score_calls = <<>>
              /\ ret.nloglik_calls = <<>>
              /\ ret.input_after = call.x
              /\ xGrad = call.x_requires_grad
        /\ IsNone(call.nloglik) => ret.status = "ok"

C1_Witness ==
    /\ Done("langevin")
    /\ ~IsNone(call.nloglik) /\ IsNone(call.datafitscale) /\ ~IsNone(call.penalty)
    /\ call.corrector_steps > 0
    /\ ret.status = "AssertionError"

\* The selector values a factory call recognizes, compared in lower case.
Recognized(c) ==
    CASE c.fn = "get_standard_sde" -> lower(c.type) \in {S_vesde, S_vpsde}
      [] c.fn = "get_standard_sampler" -> lower(c.method) \in {S_naive, S_dps, S_dds}
      [] c.fn = "get_standard_dataset" ->
             lower(c.name) \in {lower(S_DiskDistributedEllipsesDataset), lower(S_Walnut),
                                lower(S_LoDoPabCT), lower(S_Mayo)}
      [] c.fn = "get_standard_train_dataset" ->
             lower(c.name) \in {lower(S_EllipseDatasetFromDival),
                                lower(S_DiskDistributedEllipsesDataset), lower(S_LoDoPabCT)}
      [] c.fn = "get_standard_configs" ->
             /\ lower(c.model_learned_on) \in {S_ellipses, S_lodopab}
             /\ lower(c.model_learned_on) = S_lodopab => lower(c.sde) \in {S_vesde, S_vpsde}
             /\ lower(c.dataset) \in {S_ellipses, S_lodopab, S_walnut, S_mayo}

\* C2: a factory called with a selector outside its recognized set ends in
\* NotImplementedError and in nothing else; called with recognized
\* selectors it returns.
C2_UnsupportedVariant ==
    pc = "done" =>
        IF Recognized(call) THEN ret.status = "ok" ELSE ret.status = "NotImplementedError"

\* the weight the caller configured for the closure: gamma as the factory
\* passes it, or eps, or the default of eps
ConfiguredWeight(c) ==
    IF ~IsNone(c.gamma) THEN Val(c.gamma)
    ELSE IF IsNone(c.eps) THEN DefaultEps ELSE Val(c.eps)

\* A^T A applied to column b of a (P, B) layout
NormalColumn(c, v, b) ==
    LET col == Vec(Rows(v), LAMBDA p : v[p][b])
    IN  MatVec(Transpose(c.A), MatVec(c.A, col))

\* C3: the system handed to the solver is (lambda I + A^T A) x = lambda A^T y
\* + xhat0 with lambda the configured weight: the right-hand side is lambda
\* times the flattened rhs plus the initial guess xhat0, and the closure
\* applied to the initial guess is lambda times it plus A^T A of it, for
\* every configured weight (the solve is reached and the closure can be
\* called with it).
C3_NormalEquations ==
    (Done("dds") /\ DD_reshape_ok(call)) =>
        LET lam == ConfiguredWeight(call)
            x0 == ret.cg_initial_guess
        IN  /\ ret.status = "ok"
            /\ ret.cg_rhs = TAdd(TScale(DD_rhs_flat(call), lam), x0)
            /\ \A p \in 1..Rows(x0) : \A b \in 1..Cols(x0) :
                  ret.cg_matvec0[p][b] = RAdd(RMul(lam, x0[p][b]), NormalColumn(call, x0, b)[p])

\* eta of the reverse-diffusion predictor: diffusion_coeff(t)^2 * step_size
EtaOf(c, b) == RMul(RPow2(diffusion_coeff(c.sde, c.time_step)[b]), c.step_size)

\* the terms of the decomposed predictor's recombination, per batch element
SigmaT(c, b) == marginal_prob_std(c.sde, c.time_step)[b]

SigmaPrev(c, b) == marginal_prob_std(c.sde, <<c.time_step[b] - c.step_size>>)[1]

BetaOf(c, b) == RSub(RInt(1), RDiv(RPow2(SigmaPrev(c, b)), RPow2(SigmaT(c, b))))

StochasticTerm(c, b, p) == RMul(RMul(RMul(SigmaPrev(c, b), c.eta), BetaOf(c, b)), c.noise[b][p])

DeterministicTerm(c, b, p) ==
    RMul(RNeg(RMul(RMul(SigmaPrev(c, b), SigmaT(c, b)),
                   RSqrt(RSub(RInt(1), RMul(RPow2(BetaOf(c, b)), RPow2(c.eta)))))),
         score(c.score, c.x, c.time_step)[b][p])

EachElement(t, E(_, _)) == \A b \in 1..Rows(t) : \A p \in 1..Cols(t) : t[b][p] = E(b, p)

\* C4 as claimed: for both predictors x_next is x_mean plus the injected
\* noise term alone.
C4_MeanIsWholeDeterministicPart ==
    /\ (Done("em") /\ ret.status = "ok") =>
          EachElement(ret.x_next, LAMBDA b, p :
              RAdd(ret.x_mean[b][p], RMul(RSqrt(EtaOf(call, b)), call.noise[b][p])))
    /\ (Done("dds") /\ ret.status = "ok") =>
          EachElement(ret.x_next, LAMBDA b, p : RAdd(ret.x_mean[b][p], StochasticTerm(call, b, p)))

\* C4 as amended: the reverse-diffusion predictor returns x_next = x_mean +
\* sqrt(eta) * noise; the decomposed predictor returns as x_mean the
\* solver's estimate xhat, and x_next = x_mean + the score-dependent
\* deterministic term + the noise term.
C4_MeanAmended ==
    /\ (Done("em") /\ ret.status = "ok") =>
          EachElement(ret.x_next, LAMBDA b, p :
              RAdd(ret.x_mean[b][p], RMul(RSqrt(EtaOf(call, b)), call.noise[b][p])))
    /\ (Done("dds") /\ ret.status = "ok") =>
          EachElement(ret.x_next, LAMBDA b, p :
              RAdd(RAdd(ret.x_mean[b][p], DeterministicTerm(call, b, p)), StochasticTerm(call, b, p)))

C4_Witness ==
    /\ Done("dds") /\ ret.status = "ok"
    /\ call.eta = RInt(1) /\ call.step_size = 1
    /\ \E b \in 1..Rows(call.x) : \E p \in 1..Cols(call.x) :
          /\ DeterministicTerm(call, b, p) # RInt(0)
          /\ StochasticTerm(call, b, p) # RInt(0)

\* C5: the reverse-diffusion predictor called with step_size = 0 returns
\* x_mean equal to the input x and x_next equal to x_mean, whatever the
\* data-fit function and the mode.
C5_DegenerateStep ==
    (Done("em") /\ ret.status = "ok" /\ call.step_size = RInt(0)) =>
        /\ ret.x_mean = call.x
        /\ ret.x_next = ret.x_mean

\* C6: two calls of the decomposed predictor that differ in the noise draw
\* alone return the same x_next and x_mean when eta = 0, and different
\* x_next when eta > 0 and beta # 0.
C6_EtaZeroDeterministic ==
    (pc = "again" /\ ret.status = "ok") =>
        /\ call.eta = RInt(0) => (ret.x_next = prev.ret.x_next /\ ret.x_mean = prev.ret.x_mean)
        /\ (call.eta[1] > 0 /\ \A b \in 1..Rows(call.x) : BetaOf(call, b) # RInt(0)) =>
              ret.x_next # prev.ret.x_next

C6_Witness ==
    /\ pc = "again" /\ ret.status = "ok" /\ prev.ret.status = "ok"
    /\ call.eta = RInt(0) /\ call.step_size = 1
    /\ call.noise # prev.call.noise
    /\ [call EXCEPT !.noise = prev.call.noise] = prev.call
    /\ BetaOf(call, 1) # RInt(0)

\* the gradient of the data-fit function at the point it is evaluated at
DataFitGradient(c) ==
    nloglik_grad_at(Val(c.nloglik),
        IF c.aTweedy
        THEN Mat(Rows(c.x), Cols(c.x), LAMBDA b, p :
                 RAdd(c.x[b][p], RMul(score(c.score, c.x, c.time_step)[b][p], RPow2(SigmaT(c, b)))))
        ELSE c.x)

\* the gradient with respect to x of the loss: in Tweedy mode the loss is
\* evaluated at xhat0 = x + s(x) * sigma^2, whose derivative in x multiplies
\* the gradient
LossGradient(c, b, p) ==
    IF c.aTweedy
    THEN RMul(DataFitGradient(c)[b][p],
              RAdd(RInt(1), RMul(RPow2(SigmaT(c, b)), score_jacobian(c.score))))
    ELSE DataFitGradient(c)[b][p]

\* the factor on the correction: the caller's datafitscale, or with Tweedy
\* mode the reciprocal of the loss
ScaleOf(c) == IF c.aTweedy THEN RInv(EM_loss(c)) ELSE Val(c.datafitscale)

\* C7 as claimed: x_mean = x + s*eta - penalty*datafitscale*g with g the
\* gradient of the data-fit function at its input.
C7_Correction ==
    (Done("em") /\ ret.status = "ok" /\ ~IsNone(call.nloglik)) =>
        EachElement(ret.x_mean, LAMBDA b, p :
            RSub(RAdd(call.x[b][p], RMul(score(call.score, call.x, call.time_step)[b][p], EtaOf(call, b))),
                 RMul(RMul(Val(call.penalty), DataFitGradient(call)[b][p]), ScaleOf(call))))

\* C7 as amended: x_mean = x + s*eta - penalty*datafitscale*eta*g with g
\* the gradient of the loss with respect to x; with Tweedy mode datafitscale
\* is the reciprocal of the loss, whatever the caller supplied.
C7_CorrectionAmended ==
    (Done("em") /\ ret.status = "ok" /\ ~IsNone(call.nloglik)) =>
        EachElement(ret.x_mean, LAMBDA b, p :
            RSub(RAdd(call.x[b][p], RMul(score(call.score, call.x, call.time_step)[b][p], EtaOf(call, b))),
                 RMul(RMul(Val(call.penalty), RMul(LossGradient(call, b, p), EtaOf(call, b))),
                      ScaleOf(call))))

C7_Witness ==
    /\ Done("em") /\ ret.status = "ok" /\ ~IsNone(call.nloglik)
    /\ call.aTweedy
    /\ call.step_size = RInt(1)
    /\ IsFinite(ScaleOf(call))
    /\ \E b \in 1..Rows(call.x) : \E p \in 1..Cols(call.x) :
          /\ LossGradient(call, b, p) # RInt(0)
          /\ LossGradient(call, b, p) # DataFitGradient(call)[b][p]
          /\ IsFinite(ret.x_mean[b][p])

\* C8: the corrector makes corrector_steps passes, each with one score
\* evaluation at the time it was called with, the first on the input state
\* and each next one on the state the pass before produced; with no passes
\* it evaluates nothing and returns the input values.
C8_CorrectorPasses ==
    (Done("langevin") /\ ret.status = "ok") =>
        LET n == call.corrector_steps
            sc == ret.score_calls
        IN  /\ Len(sc) = n
            /\ \A i \in 1..n : sc[i].t = call.time_step
            /\ n >= 1 => sc[1].x = call.x
            /\ \A i \in 1..(n - 1) : sc[i + 1].x = LV_step(call, sc[i].x, call.noises[i])
            /\ n >= 1 => ret.x_next = LV_step(call, sc[n].x, call.noises[n])
            /\ Len(ret.nloglik_calls) = (IF IsNone(call.nloglik) THEN 0 ELSE n)
            /\ n = 0 => (ret.x_next = call.x /\ sc = <<>> /\ ret.nloglik_calls = <<>>)

C8_Witness ==
    /\ Done("langevin") /\ ret.status = "ok"
    /\ call.corrector_steps = 2
    /\ Len(ret.score_calls) = 2
    /\ ret.score_calls[2].x # call.x
    /\ ret.x_next # ret.score_calls[2].x

\* C9: when a predictor or the corrector returns, no returned state tracks
\* gradients, the caller's input state does not if it did not before, and
\* the caller's input values are as they were.
C9_TrackingScoped ==
    ((Done("em") \/ Done("langevin") \/ Done("dds")) /\ ret.status = "ok") =>
        /\ ~ret.x_next_requires_grad
        /\ call.fn # "langevin" => ~ret.x_mean_requires_grad
        /\ ~call.x_requires_grad => ~xGrad
        /\ ret.input_after = call.x

\* C10: with a solver that returns its initial guess the decomposed
\* predictor returns x_mean = xhat0 element by element, column b of the
\* layout given to the closure holds the pixels of batch element b, and a
\* rhs with one row per batch element never fails for a closure that can be
\* called, for every batch size.
C10_FlattenRoundTrip ==
    Done("dds") =>
        /\ (Rows(call.rhs) = Rows(call.x) /\ DD_closure_callable(call)) => ret.status = "ok"
        /\ (ret.status = "ok" /\ call.max_iter = 0) =>
              /\ ret.x_mean = DD_xhat0(call)
              /\ \A b \in 1..Rows(call.x) : \A p \in 1..Cols(call.x) :
                    ret.cg_initial_guess[p][b] = DD_xhat0(call)[b][p]

\* the sampler a completed get_standard_sampler call returned, at its return
\* or after its chain initializer ran
SamplerMade ==
    \/ pc = "done" /\ call.fn = "get_standard_sampler" /\ ret.status = "ok"
    \/ pc = "init"

TheSampler == IF pc = "init" THEN prev.ret.value ELSE ret.value

\* the least whole number that is at least p * n, for p = <<num, den>>
IsCeilOf(k, p, n) == k * p[2] >= p[1] * n /\ (k - 1) * p[2] < p[1] * n

\* C11: for every step count N >= 1 and fraction p in [0, 1] the start
\* index get_standard_sampler computes is ceil(p * N) and is a valid index
\* of the time grid of length N (0 <= start <= N - 1); the chain initializer
\* is configured exactly when it is > 0, and its lookup time_steps[start]
\* never fails.
C11_StartIndexValid ==
    SamplerMade =>
        LET smp == TheSampler
            N == smp.num_steps
        IN  /\ IsCeilOf(smp.start_time_step, call.pct_chain_elapsed, N)
            /\ 0 <= smp.start_time_step /\ smp.start_time_step <= N - 1
            /\ ~IsNone(smp.init_chain_fn) <=> smp.start_time_step > 0
            /\ ~IsNone(smp.init_chain_fn) =>
                  Val(smp.init_chain_fn).start_time_step = smp.start_time_step
            /\ pc = "init" => ret.status = "ok"

====
